---- MODULE Spec2Model ----
(***************************************************************************)
(* Nails_Front: the client-side resource repositories (ProductService,     *)
(* ServiceService, TallerService), the session manager (AuthService) and   *)
(* the cart owner (StoreComponent), as one state machine.                  *)
(*                                                                         *)
(* JavaScript objects live in `heap` (a sequence; an object's reference is *)
(* its index) and are functions from field names to values: a field that   *)
(* is `undefined` is a field outside the DOMAIN.  Arrays hold references.  *)
(***************************************************************************)
EXTENDS Integers, Sequences, FiniteSets, TLC

VARIABLES
    heap,           \* every product / service object ever allocated
    mockProducts,   \* ProductService.mockProducts: array of references
    mockServices,   \* ServiceService.mockServices: array of references
    clock,          \* Date.now(), in milliseconds
    pending,        \* timers of delay(n): responses not yet delivered
    requests,       \* HttpClient requests in flight
    useMockData,    \* environment.useMockData
    localStorage,   \* window.localStorage: key -> string
    instance,       \* which StoreComponent instance is alive
    shoppingCart,   \* StoreComponent.shoppingCart: array of references
    products,       \* StoreComponent.products: the array it refers to
    contador,       \* StoreComponent.contador
    isLoading,      \* StoreComponent.isLoading
    hasError,       \* StoreComponent.hasError
    modal,          \* StoreComponent.modal: <<>> is undefined, <<v>> a value
    listeners,      \* CarritoService.$modal: its subscribers, and what each received
    authData,       \* AuthService.authData: <<>> is null, <<u>> a user
    headers,        \* per repository: the token its constructor captured
    held,           \* the object a caller got from AuthService.user
    issued,         \* how many repository calls callers have made
    last            \* what the last operation showed its caller

heapVars == <<heap, mockProducts, mockServices>>
storeVars == <<instance, shoppingCart, products, contador, isLoading, hasError, modal,
              listeners>>
sessionVars == <<authData, headers, held>>
vars == <<heap, mockProducts, mockServices, clock, pending, requests, useMockData,
          localStorage, instance, shoppingCart, products, contador, isLoading,
          hasError, modal, listeners, authData, headers, held, issued, last>>

(***************************************************************************)
(* Bounds of the model.                                                    *)
(***************************************************************************)
MaxObjs == 5        \* objects in the heap
MaxQuantity == 2    \* largest product.quantity tried
MaxCalls == 3       \* addProduct calls per StoreComponent instance
MaxInstances == 2   \* StoreComponent instances created
MaxClock == 2       \* last clock reading reached by waiting
MaxPending == 3     \* timers outstanding
MaxInflight == 2    \* HTTP requests outstanding
MaxOps == 3         \* repository calls made by callers
MaxListeners == 3   \* subscribers of $modal
MaxSignals == 2     \* values emitted on $modal while a listener is subscribed

(***************************************************************************)
(* JavaScript values.                                                      *)
(***************************************************************************)
Range(s) == {s[i] : i \in DOMAIN s}

Max(a, b) == IF a > b THEN a ELSE b

\* obj.f !== undefined
Has(o, f) == f \in DOMAIN o

\* obj.f = v
Put(o, f, v) == [g \in (DOMAIN o) \cup {f} |-> IF g = f THEN v ELSE o[g]]

\* { ...a, ...b }: the fields of b win
Spread(a, b) == [g \in (DOMAIN a) \cup (DOMAIN b) |-> IF g \in DOMAIN b THEN b[g] ELSE a[g]]

\* new Date().toISOString()
toISOString(t) == <<"iso", t>>

\* `prod${Date.now()}`, `serv${Date.now()}`
TemplateId(prefix, t) == <<prefix, t>>

\* a < b in JavaScript when a may be undefined: undefined < n is false
LessThan(o, f, g) == Has(o, f) /\ Has(o, g) /\ o[f] < o[g]

\* array.findIndex(x => x._id === id): 0 stands for -1
findIndex(arr, h, id) ==
    IF \E i \in DOMAIN arr : h[arr[i]]["_id"] = id
    THEN CHOOSE i \in DOMAIN arr :
            /\ h[arr[i]]["_id"] = id
            /\ \A j \in DOMAIN arr : h[arr[j]]["_id"] = id => i <= j
    ELSE 0

\* array.find(x => x._id === id): <<>> stands for undefined
find(arr, h, id) ==
    LET i == findIndex(arr, h, id)
    IN IF i = 0 THEN <<>> ELSE <<arr[i]>>

\* array.splice(i, 1)
splice(arr, i) == SubSeq(arr, 1, i - 1) \o SubSeq(arr, i + 1, Len(arr))

\* array.some(item => item.id === id): items have no field `id`, so no item
\* ever matches.
someById(arr, h, id) == FALSE

\* array.some(item => item._id === id)
some(arr, h, id) == \E i \in DOMAIN arr : h[arr[i]]["_id"] = id

\* JSON.stringify(array): the values of the objects, undefined fields dropped
stringify(arr, h) == <<"json", [i \in DOMAIN arr |-> h[arr[i]]]>>

\* localStorage.getItem(k): <<>> stands for null
getItem(ls, k) == IF k \in DOMAIN ls THEN <<ls[k]>> ELSE <<>>

\* localStorage.setItem(k, v)
setItem(ls, k, v) == [g \in (DOMAIN ls) \cup {k} |-> IF g = k THEN v ELSE ls[g]]

\* localStorage.removeItem(k)
removeItem(ls, k) == [g \in (DOMAIN ls) \ {k} |-> ls[g]]

NoStorage == [g \in {} |-> <<>>]

(***************************************************************************)
(* Fixtures: mockData.products / mockData.services / mockData.talleres.    *)
(***************************************************************************)
FixtureProduct(id, q) ==
    [_id |-> <<id>>, name |-> "a", quantity |-> q,
     createdAt |-> toISOString(0), updatedAt |-> toISOString(0), __v |-> 0]

FixtureService(id) == [_id |-> <<id>>, name |-> "a", price |-> 1]

\* The array a reference names, as a consumer holding the reference sees it.
ArrayOf(tag) ==
    CASE tag = "mockProducts" -> mockProducts
      [] tag = "mockServices" -> mockServices
      [] OTHER -> <<>>

(***************************************************************************)
(* Timers: of(x).pipe(delay(n)) delivers x when the clock reaches the due  *)
(* time; timers fire in due order, ties in the order they were set.        *)
(***************************************************************************)
\* A delay that drops the timers set before it, as a switchMap over the
\* calls would.
delayLatest(n, to, op, resp) ==
    <<[due |-> clock + n, to |-> to, op |-> op, resp |-> resp]>>

delay(n, to, op, resp) ==
    Append(pending, [due |-> clock + n, to |-> to, op |-> op, resp |-> resp])

Earliest ==
    CHOOSE i \in DOMAIN pending :
        \A j \in DOMAIN pending :
            \/ pending[i].due < pending[j].due
            \/ (pending[i].due = pending[j].due /\ i <= j)

\* Time passes while no timer is due.
Tick ==
    /\ clock < MaxClock
    /\ \A i \in DOMAIN pending : pending[i].due > clock
    /\ clock' = clock + 1
    /\ UNCHANGED <<heapVars, pending, requests, useMockData, localStorage,
                   storeVars, sessionVars, issued, last>>

(***************************************************************************)
(* HttpClient: a request is sent when the caller subscribes; `hdr` is the  *)
(* token header it carries (<<>> when the call passes no headers).         *)
(***************************************************************************)
http(method, url, hdr, to, op) ==
    Append(requests, [method |-> method, url |-> url, hdr |-> hdr, to |-> to, op |-> op])

Caller == [kind |-> "caller", inst |-> 0]

\* A service can be called once Angular has constructed it, and the model
\* keeps at most MaxPending timers and MaxInflight requests outstanding.
Room(service) ==
    /\ headers[service] # <<>>
    /\ Len(pending) < MaxPending
    /\ Len(requests) < MaxInflight

\* A caller outside the model's components calls a repository.
Call(service) ==
    /\ Room(service)
    /\ issued < MaxOps
    /\ issued' = issued + 1

\* The ids a caller may ask a repository for: those of its entities, and one
\* of no entity.
IdsOf(arr) == {heap[arr[i]]["_id"] : i \in DOMAIN arr} \cup {<<"none">>}

\* Form values a caller may pass to create.
ProductDrafts ==
    {[name |-> "b", quantity |-> 1], [name |-> "c", quantity |-> 2, _id |-> <<"mine">>]}

\* Form values a caller may pass to update.
ProductPatches == {[name |-> "c", updatedAt |-> toISOString(0)], [_id |-> <<"mine">>]}

(***************************************************************************)
(* ProductService                                                          *)
(***************************************************************************)
\* The effect of calling getAllProducts() and subscribing `to` to it.
ProductService_getAllProducts(to) ==
    IF useMockData
    THEN /\ pending' = delay(300, to, "getAllProducts",
                             [ok |-> TRUE, data |-> [alias |-> "mockProducts", items |-> <<>>],
                              msg |-> "Productos obtenidos desde mock data"])
         /\ UNCHANGED requests
    ELSE /\ requests' = http("GET", <<"/products">>, <<>>, to, "getAllProducts")
         /\ UNCHANGED pending

getAllProducts ==
    /\ Call("products")
    /\ ProductService_getAllProducts(Caller)
    /\ last' = [op |-> "getAllProducts"]
    /\ UNCHANGED <<heapVars, clock, useMockData, localStorage, storeVars, sessionVars>>

getProductById(id) ==
    /\ Call("products")
    /\ IF useMockData
       THEN /\ pending' = delay(200, Caller, "getProductById", find(mockProducts, heap, id))
            /\ UNCHANGED requests
       ELSE /\ requests' = http("GET", <<"/products", id>>, <<>>, Caller, "getProductById")
            /\ UNCHANGED pending
    /\ last' = [op |-> "getProductById", id |-> id]
    /\ UNCHANGED <<heapVars, clock, useMockData, localStorage, storeVars, sessionVars>>

\* `prod${Date.now()}`
NewProductId == TemplateId("prod", clock)

newProduct(data) ==
    Spread(data, [_id |-> NewProductId, createdAt |-> toISOString(clock),
                  updatedAt |-> toISOString(clock), __v |-> 0])

createProduct(data) ==
    /\ Call("products")
    /\ IF useMockData
       THEN /\ Len(heap) < MaxObjs
            /\ heap' = Append(heap, newProduct(data))
            /\ mockProducts' = Append(mockProducts, Len(heap) + 1)
            /\ pending' = delay(400, Caller, "createProduct",
                                [ok |-> TRUE, data |-> [alias |-> "", items |-> <<Len(heap) + 1>>],
                                 msg |-> "Producto creado exitosamente (mock)"])
            /\ last' = [op |-> "createProduct", ref |-> Len(heap) + 1]
            /\ UNCHANGED requests
       ELSE /\ requests' = http("POST", <<"/products">>, headers.products, Caller, "createProduct")
            /\ last' = [op |-> "createProduct", ref |-> 0]
            /\ UNCHANGED <<heap, mockProducts, pending>>
    /\ UNCHANGED <<mockServices, clock, useMockData, localStorage, storeVars, sessionVars>>

\* deleteFromMock without its `index !== -1` test: splice(-1, 1) removes the
\* last element.
deleteFromMockUnguarded(arr, index) ==
    IF arr = <<>> THEN arr ELSE splice(arr, IF index # 0 THEN index ELSE Len(arr))

\* What deleteProduct does to the mock array once findIndex has answered.
deleteFromMock(arr, index) == IF index # 0 THEN splice(arr, index) ELSE arr

deleteProduct(id) ==
    /\ Call("products")
    /\ IF useMockData
       THEN LET index == findIndex(mockProducts, heap, id)
            IN /\ mockProducts' = deleteFromMock(mockProducts, index)
               /\ pending' = delay(300, Caller, "deleteProduct",
                                   IF index # 0
                                   THEN [ok |-> TRUE, msg |-> "Producto eliminado exitosamente (mock)"]
                                   ELSE [ok |-> FALSE, msg |-> "Producto no encontrado"])
               /\ last' = [op |-> "deleteProduct", id |-> id]
               /\ UNCHANGED requests
       ELSE /\ requests' = http("DELETE", <<"/products", id>>, headers.products, Caller,
                                "deleteProduct")
            /\ last' = [op |-> "deleteProduct", id |-> id]
            /\ UNCHANGED <<mockProducts, pending>>
    /\ UNCHANGED <<heap, mockServices, clock, useMockData, localStorage, storeVars, sessionVars>>

\* The merge with the spread operands in the other order: the old fields win.
updatedProductOldWins(old, product) ==
    Spread(Spread(product, old), [updatedAt |-> toISOString(clock)])

updatedProduct(old, product) ==
    Spread(Spread(old, product), [updatedAt |-> toISOString(clock)])

updateProduct(id, product) ==
    /\ Call("products")
    /\ IF useMockData
       THEN LET index == findIndex(mockProducts, heap, id)
            IN IF index # 0
               THEN /\ Len(heap) < MaxObjs
                    /\ heap' = Append(heap, updatedProduct(heap[mockProducts[index]], product))
                    /\ mockProducts' = [mockProducts EXCEPT ![index] = Len(heap) + 1]
                    /\ pending' = delay(300, Caller, "updateProduct",
                                        [ok |-> TRUE,
                                         data |-> [alias |-> "", items |-> <<Len(heap) + 1>>],
                                         msg |-> "Producto actualizado exitosamente (mock)"])
                    /\ UNCHANGED requests
               ELSE /\ pending' = delay(300, Caller, "updateProduct",
                                        [ok |-> FALSE, msg |-> "Producto no encontrado"])
                    /\ UNCHANGED <<heap, mockProducts, requests>>
       ELSE /\ requests' = http("PATCH", <<"/products", id>>, headers.products, Caller,
                                "updateProduct")
            /\ UNCHANGED <<heap, mockProducts, pending>>
    /\ last' = [op |-> "updateProduct", id |-> id, patch |-> product]
    /\ UNCHANGED <<mockServices, clock, useMockData, localStorage, storeVars, sessionVars>>

(***************************************************************************)
(* ServiceService                                                          *)
(***************************************************************************)
ServiceDrafts == {[name |-> "b", price |-> 2, _id |-> <<"mine">>]}

ServicePatches == {[price |-> 3]}

getAllServices ==
    /\ Call("services")
    /\ IF useMockData
       THEN /\ pending' = delay(300, Caller, "getAllServices",
                                [ok |-> TRUE, data |-> [alias |-> "mockServices", items |-> <<>>],
                                 msg |-> "Servicios obtenidos desde mock data"])
            /\ UNCHANGED requests
       ELSE /\ requests' = http("GET", <<"/services">>, headers.services, Caller, "getAllServices")
            /\ UNCHANGED pending
    /\ last' = [op |-> "getAllServices"]
    /\ UNCHANGED <<heapVars, clock, useMockData, localStorage, storeVars, sessionVars>>

getServiceById(id) ==
    /\ Call("services")
    /\ IF useMockData
       THEN /\ pending' = delay(200, Caller, "getServiceById", find(mockServices, heap, id))
            /\ UNCHANGED requests
       ELSE /\ requests' = http("GET", <<"/services", id>>, <<>>, Caller, "getServiceById")
            /\ UNCHANGED pending
    /\ last' = [op |-> "getServiceById", id |-> id]
    /\ UNCHANGED <<heapVars, clock, useMockData, localStorage, storeVars, sessionVars>>

\* `serv${Date.now()}`
NewServiceId == TemplateId("serv", clock)

newService(data) == Spread(data, [_id |-> NewServiceId])

createService(data) ==
    /\ Call("services")
    /\ IF useMockData
       THEN /\ Len(heap) < MaxObjs
            /\ heap' = Append(heap, newService(data))
            /\ mockServices' = Append(mockServices, Len(heap) + 1)
            /\ pending' = delay(400, Caller, "createService",
                                [ok |-> TRUE, data |-> [alias |-> "", items |-> <<Len(heap) + 1>>],
                                 msg |-> "Servicio creado exitosamente (mock)"])
            /\ last' = [op |-> "createService", ref |-> Len(heap) + 1]
            /\ UNCHANGED requests
       ELSE /\ requests' = http("POST", <<"/services">>, headers.services, Caller, "createService")
            /\ last' = [op |-> "createService", ref |-> 0]
            /\ UNCHANGED <<heap, mockServices, pending>>
    /\ UNCHANGED <<mockProducts, clock, useMockData, localStorage, storeVars, sessionVars>>

deleteService(id) ==
    /\ Call("services")
    /\ IF useMockData
       THEN LET index == findIndex(mockServices, heap, id)
            IN /\ mockServices' = deleteFromMock(mockServices, index)
               /\ pending' = delay(300, Caller, "deleteService",
                                   IF index # 0
                                   THEN [ok |-> TRUE, msg |-> "Servicio eliminado exitosamente (mock)"]
                                   ELSE [ok |-> FALSE, msg |-> "Servicio no encontrado"])
               /\ UNCHANGED requests
       ELSE /\ requests' = http("DELETE", <<"/services", id>>, headers.services, Caller,
                                "deleteService")
            /\ UNCHANGED <<mockServices, pending>>
    /\ last' = [op |-> "deleteService", id |-> id]
    /\ UNCHANGED <<heap, mockProducts, clock, useMockData, localStorage, storeVars, sessionVars>>

updatedService(old, Service) == Spread(old, Service)

updateService(id, Service) ==
    /\ Call("services")
    /\ IF useMockData
       THEN LET index == findIndex(mockServices, heap, id)
            IN IF index # 0
               THEN /\ Len(heap) < MaxObjs
                    /\ heap' = Append(heap, updatedService(heap[mockServices[index]], Service))
                    /\ mockServices' = [mockServices EXCEPT ![index] = Len(heap) + 1]
                    /\ pending' = delay(300, Caller, "updateService",
                                        [ok |-> TRUE,
                                         data |-> [alias |-> "", items |-> <<Len(heap) + 1>>],
                                         msg |-> "Servicio actualizado exitosamente (mock)"])
                    /\ UNCHANGED requests
               ELSE /\ pending' = delay(300, Caller, "updateService",
                                        [ok |-> FALSE, msg |-> "Servicio no encontrado"])
                    /\ UNCHANGED <<heap, mockServices, requests>>
       ELSE /\ requests' = http("PATCH", <<"/services", id>>, headers.services, Caller,
                                "updateService")
            /\ UNCHANGED <<heap, mockServices, pending>>
    /\ last' = [op |-> "updateService", id |-> id, patch |-> Service]
    /\ UNCHANGED <<mockProducts, clock, useMockData, localStorage, storeVars, sessionVars>>

(***************************************************************************)
(* TallerService: the class the workshop components call (createTaller,    *)
(* getAllTalleres, deleteTaller) and the mock-aware getallTalleres.        *)
(***************************************************************************)
getallTalleres ==
    /\ Call("talleres")
    /\ IF useMockData
       THEN /\ pending' = delay(300, Caller, "getallTalleres",
                                [ok |-> TRUE, data |-> [alias |-> "mockTalleres", items |-> <<>>],
                                 msg |-> "Talleres obtenidos desde mock data"])
            /\ UNCHANGED requests
       ELSE /\ requests' = http("GET", <<"/talleres">>, <<>>, Caller, "getallTalleres")
            /\ UNCHANGED pending
    /\ last' = [op |-> "getallTalleres"]
    /\ UNCHANGED <<heapVars, clock, useMockData, localStorage, storeVars, sessionVars>>

createTaller ==
    /\ Call("talleres")
    /\ requests' = http("POST", <<"/talleres">>, headers.talleres, Caller, "createTaller")
    /\ last' = [op |-> "createTaller"]
    /\ UNCHANGED <<heapVars, clock, pending, useMockData, localStorage, storeVars, sessionVars>>

getAllTalleres ==
    /\ Call("talleres")
    /\ requests' = http("GET", <<"/talleres">>, <<>>, Caller, "getAllTalleres")
    /\ last' = [op |-> "getAllTalleres"]
    /\ UNCHANGED <<heapVars, clock, pending, useMockData, localStorage, storeVars, sessionVars>>

deleteTaller(id) ==
    /\ Call("talleres")
    /\ requests' = http("DELETE", <<"/talleres", id>>, headers.talleres, Caller, "deleteTaller")
    /\ last' = [op |-> "deleteTaller", id |-> id]
    /\ UNCHANGED <<heapVars, clock, pending, useMockData, localStorage, storeVars, sessionVars>>

(***************************************************************************)
(* AuthService                                                             *)
(***************************************************************************)
Tokens == {"t1", "t2"}

\* The userData of a response: role, name, username.
Profile == [role |-> "user", name |-> "n", username |-> "u"]

\* No object: what a caller holds before it has read AuthService.user.
NoObject == [alias |-> FALSE, obj |-> <<>>]

\* What the backend may answer to /auth/login and /auth/renew-token: a body
\* {ok: true, token, userData}, a body {ok: false, msg}, an error status, or
\* no answer at all (network failure).
AuthOutcomes ==
    {[kind |-> "body", body |-> [ok |-> TRUE, token |-> t, userData |-> Profile]] : t \in Tokens}
        \cup {[kind |-> "body", body |-> [ok |-> FALSE, msg |-> "denied"]],
              [kind |-> "status"], [kind |-> "network"]}

\* What the backend may answer to a repository request.
RepositoryOutcomes ==
    {[kind |-> "body", body |-> [ok |-> TRUE, data |-> "payload", msg |-> "ok"]],
     [kind |-> "status"], [kind |-> "network"]}

\* String(v), as localStorage.setItem stores its value
String(o, f) == IF Has(o, f) THEN o[f] ELSE "undefined"

\* token ? token : '' and getItem('token') || ''
orEmpty(item) == IF item = <<>> \/ item = <<"">> THEN "" ELSE item[1]

\* A repository's constructor, run by Angular when the service is first injected.
constructor(service) ==
    /\ headers[service] = <<>>
    /\ headers' = [headers EXCEPT ![service] = <<orEmpty(getItem(localStorage, "token"))>>]
    /\ last' = [op |-> "constructor", service |-> service]
    /\ UNCHANGED <<heapVars, clock, pending, requests, useMockData, localStorage, storeVars,
                   authData, held, issued>>

login ==
    /\ Len(requests) < MaxInflight
    /\ requests' = http("POST", <<"/auth/login">>, <<>>, [kind |-> "auth", inst |-> 0], "login")
    /\ last' = [op |-> "login"]
    /\ UNCHANGED <<heapVars, clock, pending, useMockData, localStorage, storeVars,
                   sessionVars, issued>>

verifyToken ==
    /\ Len(requests) < MaxInflight
    /\ requests' = http("GET", <<"/auth/renew-token">>,
                        <<orEmpty(getItem(localStorage, "token"))>>,
                        [kind |-> "auth", inst |-> 0], "verifyToken")
    /\ last' = [op |-> "verifyToken"]
    /\ UNCHANGED <<heapVars, clock, pending, useMockData, localStorage, storeVars,
                   sessionVars, issued>>

\* login's tap without its setItem.
loginTapNothing(ls, body) == ls

\* login's tap: what a response body does to localStorage.
loginTap(ls, body) == setItem(ls, "token", String(body, "token"))

\* verifyToken's tap with localStorage.clear() in place of removeItem.
verifyTapClear(ls, body) ==
    IF Has(body, "token") THEN setItem(ls, "token", body["token"]) ELSE NoStorage

\* verifyToken's tap: what a response body does to localStorage and authData.
verifyTapStorage(ls, body) ==
    IF Has(body, "token") THEN setItem(ls, "token", body["token"]) ELSE removeItem(ls, "token")

verifyTapUser(body) ==
    IF Has(body, "token")
    THEN (IF Has(body, "userData") THEN <<body["userData"]>> ELSE <<>>)
    ELSE <<>>

\* this.authData = ... in verifyToken's tap gives authData another object: an
\* object a caller holds that was authData's own is from then on its own.
released(h, data) == IF h.alias THEN [alias |-> FALSE, obj |-> data] ELSE h

\* The same object as authData, handed out without the spread.
userLive(data) == [alias |-> TRUE, obj |-> <<>>]

\* get user(): { ...this.authData }, a new object with authData's fields
\* ({} when authData is null).
userValue(data) ==
    [alias |-> FALSE, obj |-> <<IF data = <<>> THEN [g \in {} |-> ""] ELSE data[1]>>]

\* A caller reads the accessor and keeps what it returns.
user ==
    /\ held' = userValue(authData)
    /\ last' = [op |-> "user"]
    /\ UNCHANGED <<heapVars, clock, pending, requests, useMockData, localStorage, storeVars,
                   authData, headers, issued>>

\* The caller writes a field of the object it holds: held.f = v.
mutate(f, v) ==
    /\ IF held.alias
       THEN /\ authData # <<>>
            /\ authData' = <<Put(authData[1], f, v)>>
            /\ UNCHANGED held
       ELSE /\ held.obj # <<>>
            /\ held' = [held EXCEPT !.obj = <<Put(@[1], f, v)>>]
            /\ UNCHANGED authData
    /\ last' = [op |-> "mutate", field |-> f]
    /\ UNCHANGED <<heapVars, clock, pending, requests, useMockData, localStorage, storeVars,
                   headers, issued>>

\* catchError(error => of(true)): a failure that resolves to true.
resultOfTrue(outcome) == IF outcome.kind = "body" THEN outcome.body["ok"] ELSE TRUE

\* catchError(error => of(false)) after map(response => response.ok)
resultOf(outcome) == IF outcome.kind = "body" THEN outcome.body["ok"] ELSE FALSE

\* A catchError(() => of(...)) at the end of the pipe: a failure reaches the
\* subscriber's next handler.
handlerAbsorbed(outcome) == "next"

\* The subscriber's handler a repository observable calls: the repositories
\* pipe at most tap and map, so a failure reaches the error handler.
handlerOf(outcome) == IF outcome.kind = "body" THEN "next" ELSE "error"

\* An error handler that sets hasError and leaves isLoading alone.
afterLoadStuck(failed) == [isLoading |-> failed, hasError |-> failed]

\* The flags the handlers of ngOnInit's subscription leave: next sets
\* isLoading = false, hasError = false; error sets isLoading = false,
\* hasError = true.
afterLoad(failed) == [isLoading |-> FALSE, hasError |-> failed]

\* data.data of a list answered by the backend. The backend's catalogue is
\* empty here: its products are not objects of the mock heap.
listOf(body) == [alias |-> "", items |-> <<>>]

\* The StoreComponent instance that is alive subscribed `to`.
ToStore(to) == to.kind = "store" /\ to.inst = instance

(***************************************************************************)
(* The backend answers request i, or the request fails: the pipe of the    *)
(* operation that sent it runs.                                            *)
(***************************************************************************)
Respond(i, outcome) ==
    /\ i \in DOMAIN requests
    /\ requests' = splice(requests, i)
    /\ LET req == requests[i]
       IN CASE req.op = "login" ->
                 /\ outcome \in AuthOutcomes
                 /\ localStorage' = IF outcome.kind = "body"
                                    THEN loginTap(localStorage, outcome.body)
                                    ELSE localStorage
                 /\ last' = [op |-> "login.next", outcome |-> outcome,
                             value |-> resultOf(outcome)]
                 /\ UNCHANGED <<authData, held>>
            [] req.op = "verifyToken" ->
                 /\ outcome \in AuthOutcomes
                 /\ localStorage' = IF outcome.kind = "body"
                                    THEN verifyTapStorage(localStorage, outcome.body)
                                    ELSE localStorage
                 /\ authData' = IF outcome.kind = "body"
                                THEN verifyTapUser(outcome.body)
                                ELSE authData
                 /\ held' = IF outcome.kind = "body" THEN released(held, authData) ELSE held
                 /\ last' = [op |-> "verifyToken.next", outcome |-> outcome,
                             value |-> resultOf(outcome)]
            [] OTHER ->
                 /\ outcome \in RepositoryOutcomes
                 /\ last' = [op |-> handlerOf(outcome),
                             of |-> req.op, to |-> req.to,
                             value |-> IF outcome.kind # "body" THEN outcome
                                       ELSE IF req.op \in {"getProductById", "getServiceById"}
                                            THEN [data |-> outcome.body["data"]]
                                            ELSE outcome.body]
                 /\ UNCHANGED <<localStorage, authData, held>>
    /\ IF ToStore(requests[i].to)
       THEN /\ products' = IF outcome.kind = "body" THEN listOf(outcome.body)
                                                    ELSE [alias |-> "", items |-> <<>>]
            /\ isLoading' = afterLoad(outcome.kind # "body").isLoading
            /\ hasError' = afterLoad(outcome.kind # "body").hasError
       ELSE UNCHANGED <<products, isLoading, hasError>>
    /\ UNCHANGED <<heapVars, clock, pending, useMockData, instance, shoppingCart, contador,
                   modal, listeners, headers, issued>>

(***************************************************************************)
(* StoreComponent                                                          *)
(***************************************************************************)
\* The products the component holds: this.products.
StoreProducts == IF products.alias # "" THEN ArrayOf(products.alias) ELSE products.items

\* $modal.subscribe(handler): the handler joins the subscribers, having
\* received nothing.
subscribed(ls, listener) == Append(ls, [who |-> listener.who, inst |-> listener.inst, got |-> <<>>])

\* A new StoreComponent (field initialisers, constructor) and its ngOnInit.
\* The component has no ngOnDestroy: the subscription of the instance it
\* replaces stays.
ngOnInit ==
    /\ instance < MaxInstances
    /\ Room("products")
    /\ instance' = instance + 1
    /\ shoppingCart' = <<>>
    /\ products' = [alias |-> "", items |-> <<>>]
    /\ contador' = 0
    /\ hasError' = FALSE
    /\ isLoading' = TRUE
    /\ ProductService_getAllProducts([kind |-> "store", inst |-> instance + 1])
    /\ modal' = <<>>
    /\ listeners' = subscribed(listeners, [who |-> "store", inst |-> instance + 1])
    /\ last' = [op |-> "ngOnInit"]
    /\ UNCHANGED <<heapVars, clock, useMockData, localStorage, sessionVars, issued>>

\* product.count < product.quantity
belowQuantity(product) == LessThan(product, "count", "quantity")

\* The cart an addProduct of an absent product leaves.
pushed(cart, product) == Append(cart, product)

\* The cart written before this call's change to it: the write moved above
\* the if.
storedBefore(ls, cart, h, cart2, h2, full) ==
    IF full THEN ls ELSE setItem(ls, "shoppingCart", stringify(cart, h))

\* localStorage.setItem('shoppingCart', JSON.stringify(this.shoppingCart)) at
\* the end of addProduct; when the storage is full setItem throws and stores
\* nothing.
stored(ls, cart, h, cart2, h2, full) ==
    IF full THEN ls ELSE setItem(ls, "shoppingCart", stringify(cart2, h2))

\* addProduct(product); `full` says whether the storage refuses the write.
addProduct(product, full) ==
    /\ instance > 0
    /\ contador < MaxCalls
    /\ contador' = contador + 1
    /\ IF some(shoppingCart, heap, heap[product]["_id"])
       THEN /\ IF belowQuantity(heap[product])
               THEN heap' = [heap EXCEPT ![product] = Put(@, "count", @["count"] + 1)]
               ELSE UNCHANGED heap
            /\ UNCHANGED shoppingCart
       ELSE /\ heap' = [heap EXCEPT ![product] = Put(@, "count", 1)]
            /\ shoppingCart' = pushed(shoppingCart, product)
    /\ localStorage' = stored(localStorage, shoppingCart, heap, shoppingCart', heap', full)
    /\ last' = [op |-> "addProduct", product |-> product,
                alert |-> /\ some(shoppingCart, heap, heap[product]["_id"])
                          /\ ~belowQuantity(heap[product]),
                full |-> full, writes |-> 1, thrown |-> full]
    /\ UNCHANGED <<mockProducts, mockServices, clock, pending, requests, useMockData,
                   instance, products, isLoading, hasError, modal, listeners, sessionVars,
                   issued>>

\* opencarrito(): this.modal = true.
opencarrito ==
    /\ instance > 0
    /\ modal' = <<TRUE>>
    /\ last' = [op |-> "opencarrito"]
    /\ UNCHANGED <<heapVars, clock, pending, requests, useMockData, localStorage, instance,
                   shoppingCart, products, contador, isLoading, hasError, listeners,
                   sessionVars, issued>>

(***************************************************************************)
(* CarritoService.$modal, an EventEmitter                                  *)
(***************************************************************************)
\* The handler the live StoreComponent subscribed is among the subscribers.
StoreListens ==
    \E i \in DOMAIN listeners : listeners[i].who = "store" /\ listeners[i].inst = instance

\* What emit(value) leaves each subscriber with.
emitted(ls, value) == [i \in DOMAIN ls |-> [ls[i] EXCEPT !.got = Append(@, value)]]

\* Another component subscribes to $modal.
subscribe ==
    /\ Len(listeners) < MaxListeners
    /\ listeners' = subscribed(listeners, [who |-> "other", inst |-> 0])
    /\ last' = [op |-> "subscribe"]
    /\ UNCHANGED <<heapVars, clock, pending, requests, useMockData, localStorage, instance,
                   shoppingCart, products, contador, isLoading, hasError, modal,
                   sessionVars, issued>>

\* $modal.emit(value): every handler subscribed now runs with the value; the
\* store's handler is value => { this.modal = value }.
emit(value) ==
    /\ \A i \in DOMAIN listeners : Len(listeners[i].got) < MaxSignals
    /\ listeners' = emitted(listeners, value)
    /\ modal' = IF StoreListens THEN <<value>> ELSE modal
    /\ last' = [op |-> "emit", value |-> value]
    /\ UNCHANGED <<heapVars, clock, pending, requests, useMockData, localStorage, instance,
                   shoppingCart, products, contador, isLoading, hasError, sessionVars,
                   issued>>

(***************************************************************************)
(* A timer fires: the subscriber's next handler runs.                      *)
(***************************************************************************)
Deliver ==
    /\ pending # <<>>
    /\ LET p == pending[Earliest]
       IN /\ pending' = splice(pending, Earliest)
          /\ clock' = Max(clock, p.due)
          /\ IF ToStore(p.to)
             THEN /\ products' = p.resp.data
                  /\ isLoading' = afterLoad(FALSE).isLoading
                  /\ hasError' = afterLoad(FALSE).hasError
             ELSE UNCHANGED <<products, isLoading, hasError>>
          /\ last' = [op |-> "next", of |-> p.op, to |-> p.to, value |-> p.resp]
    /\ UNCHANGED <<heapVars, requests, useMockData, localStorage, instance, shoppingCart,
                   contador, modal, listeners, sessionVars, issued>>

(***************************************************************************)
(* The state when the application has started.                             *)
(***************************************************************************)
Boot ==
    /\ heap \in {<<FixtureProduct("prod001", q), FixtureProduct("prod002", 1),
                    FixtureService("serv001")>> : q \in 0..MaxQuantity}
    /\ mockProducts = <<1, 2>>
    /\ mockServices = <<3>>
    /\ clock = 1
    /\ pending = <<>>
    /\ requests = <<>>
    /\ instance = 0
    /\ shoppingCart = <<>>
    /\ products = [alias |-> "", items |-> <<>>]
    /\ contador = 0
    /\ isLoading = TRUE
    /\ hasError = FALSE
    /\ modal = <<>>
    /\ listeners = <<>>
    /\ authData = <<>>
    /\ held = NoObject
    /\ issued = 0
    /\ last = [op |-> "boot"]

\* Mock mode, the services constructed with no token stored.
InitMock ==
    /\ Boot
    /\ useMockData = TRUE
    /\ localStorage = NoStorage
    /\ headers = [products |-> <<"">>, services |-> <<"">>, talleres |-> <<"">>]

(***************************************************************************)
(* The store in mock mode: the cart owner, and the product repository      *)
(* whose array it shows.                                                   *)
(***************************************************************************)
NextStore ==
    \/ ngOnInit
    \/ Deliver
    \/ \E product \in Range(StoreProducts), full \in BOOLEAN : addProduct(product, full)
    \/ \E id \in IdsOf(mockProducts) \ {<<"none">>}, product \in ProductPatches :
          updateProduct(id, product)

SpecStore == InitMock /\ [][NextStore]_vars

\* The cart owner alone.
NextCart ==
    \/ ngOnInit
    \/ Deliver
    \/ \E product \in Range(StoreProducts), full \in BOOLEAN : addProduct(product, full)

\* The catalogue whose first product has the largest quantity tried.
InitCart == InitMock /\ heap[1]["quantity"] = MaxQuantity

SpecCart == InitCart /\ [][NextCart]_vars

\* The cart owner, the modal's emitter and another subscriber of it.
NextModal ==
    \/ ngOnInit
    \/ Deliver
    \/ \E product \in Range(StoreProducts) : addProduct(product, FALSE)
    \/ opencarrito
    \/ subscribe
    \/ \E value \in BOOLEAN : emit(value)

SpecModal == InitCart /\ [][NextModal]_vars

\* The cart as values: what JSON.parse of the stored string gives back.
parse(str) == str[2]

CartValue(cart, h) == [i \in DOMAIN cart |-> h[cart[i]]]

\* The cart line of an entity id, as the set of its positions (none or one).
LinesOf(cart, h, id) == {i \in DOMAIN cart : h[cart[i]]["_id"] = id}

\* This step is an addProduct call.
IsAddProduct == last'.op = "addProduct" /\ contador' = contador + 1

\* C1: every line of the cart has 0 < count <= quantity, whatever products
\* (also one with quantity 0) addProduct was called with.
C1_LinesWithinQuantity ==
    \A i \in DOMAIN shoppingCart :
        LET line == heap[shoppingCart[i]]
        IN /\ Has(line, "count")
           /\ 0 < line["count"]
           /\ line["count"] <= line["quantity"]

\* C2: an addProduct for an id whose cart line has count = quantity changes
\* no line's count and alerts; an addProduct that stays within the quantity
\* (an absent id with quantity >= 1, or a line with count < quantity) does
\* not alert.
C2_NoticeExactlyAtCapacity ==
    [][IsAddProduct =>
        LET id == heap[last'.product]["_id"]
            lines == LinesOf(shoppingCart, heap, id)
            full == \E i \in lines :
                        /\ Has(heap[shoppingCart[i]], "count")
                        /\ heap[shoppingCart[i]]["count"] = heap[shoppingCart[i]]["quantity"]
            within == IF lines = {}
                      THEN heap[last'.product]["quantity"] >= 1
                      ELSE \A i \in lines : belowQuantity(heap[shoppingCart[i]])
        IN /\ full => /\ CartValue(shoppingCart', heap') = CartValue(shoppingCart, heap)
                       /\ last'.alert
           /\ within => ~last'.alert]_vars

\* C8: a new StoreComponent starts with the cart that is stored under
\* 'shoppingCart', and an addProduct keeps the lines stored before it.
C8_CartSurvivesRestart ==
    [][/\ (instance' = instance + 1 /\ Has(localStorage, "shoppingCart")) =>
            CartValue(shoppingCart', heap') = parse(localStorage'["shoppingCart"])
       /\ (IsAddProduct /\ Has(localStorage, "shoppingCart")) =>
            \A i \in DOMAIN parse(localStorage["shoppingCart"]) :
                \E j \in DOMAIN parse(localStorage'["shoppingCart"]) :
                    parse(localStorage'["shoppingCart"])[j]["_id"]
                        = parse(localStorage["shoppingCart"])[i]["_id"]]_vars


(***************************************************************************)
(* The repositories in mock mode, called by any caller.                    *)
(***************************************************************************)
NextRepo ==
    \/ Tick
    \/ Deliver
    \/ \E i \in DOMAIN requests, outcome \in RepositoryOutcomes : Respond(i, outcome)
    \/ getAllProducts
    \/ \E id \in IdsOf(mockProducts) : getProductById(id)
    \/ \E data \in ProductDrafts : createProduct(data)
    \/ \E id \in IdsOf(mockProducts) : deleteProduct(id)
    \/ \E id \in IdsOf(mockProducts), product \in ProductPatches : updateProduct(id, product)
    \/ getAllServices
    \/ \E id \in IdsOf(mockServices) : getServiceById(id)
    \/ \E data \in ServiceDrafts : createService(data)
    \/ \E id \in IdsOf(mockServices) : deleteService(id)
    \/ \E id \in IdsOf(mockServices), Service \in ServicePatches : updateService(id, Service)
    \/ getallTalleres
    \/ createTaller
    \/ getAllTalleres
    \/ deleteTaller(<<"tall001">>)

InitRepo == InitMock /\ heap[1]["quantity"] = 1

SpecRepo == InitRepo /\ [][NextRepo]_vars

\* Creating and deleting only, products and services.
NextCreateDelete ==
    \/ Tick
    \/ Deliver
    \/ \E data \in ProductDrafts : createProduct(data)
    \/ \E id \in IdsOf(mockProducts) : deleteProduct(id)
    \/ \E data \in ServiceDrafts : createService(data)
    \/ \E id \in IdsOf(mockServices) : deleteService(id)

SpecCreateDelete == InitRepo /\ [][NextCreateDelete]_vars

\* The same, with the event loop firing every timer that is due.
FairCreateDelete == SpecCreateDelete /\ WF_vars(Deliver)

\* Updating products and services, and creating products to update.
NextUpdate ==
    \/ Tick
    \/ Deliver
    \/ \E data \in ProductDrafts : createProduct(data)
    \/ \E id \in IdsOf(mockProducts), product \in ProductPatches : updateProduct(id, product)
    \/ \E id \in IdsOf(mockServices), Service \in ServicePatches : updateService(id, Service)

SpecUpdate == InitRepo /\ [][NextUpdate]_vars

(***************************************************************************)
(* Live mode: the session manager and the repositories' requests.          *)
(***************************************************************************)
InitLive ==
    /\ Boot
    /\ heap[1]["quantity"] = 1
    /\ useMockData = FALSE
    /\ localStorage = NoStorage
    /\ headers = [products |-> <<>>, services |-> <<>>, talleres |-> <<>>]

\* The session manager alone: logins and verifications, possibly overlapping.
NextSession ==
    \/ login
    \/ verifyToken
    \/ user
    \/ \E f \in {"role", "extra"} : mutate(f, "admin")
    \/ \E i \in DOMAIN requests, outcome \in AuthOutcomes : Respond(i, outcome)

SpecSession == InitLive /\ [][NextSession]_vars

\* The repositories in live mode, beside a session manager that logs in and
\* verifies.
NextLive ==
    \/ \E service \in {"products", "services"} : constructor(service)
    \/ login
    \/ verifyToken
    \/ \E i \in DOMAIN requests, outcome \in AuthOutcomes \cup RepositoryOutcomes :
          Respond(i, outcome)
    \/ getAllProducts
    \/ getProductById(<<"prod001">>)
    \/ createProduct([name |-> "b", quantity |-> 1])
    \/ deleteProduct(<<"prod001">>)
    \/ updateProduct(<<"prod001">>, [name |-> "c", quantity |-> 0])
    \/ getAllServices
    \/ getServiceById(<<"serv001">>)
    \/ createService([name |-> "b", price |-> 2])
    \/ deleteService(<<"serv001">>)
    \/ updateService(<<"serv001">>, [price |-> 3])

SpecLive == InitLive /\ [][NextLive]_vars

\* The writers of localStorage side by side in mock mode: the cart owner,
\* whose ngOnInit lists the product repository, and the session manager.
NextStorage ==
    \/ ngOnInit
    \/ Deliver
    \/ \E product \in Range(StoreProducts) : addProduct(product, FALSE)
    \/ login
    \/ verifyToken
    \/ \E i \in DOMAIN requests, outcome \in AuthOutcomes : Respond(i, outcome)

SpecStorage == InitRepo /\ [][NextStorage]_vars

\* The repositories in live mode alone.
NextTransport ==
    \/ \E service \in {"products", "services"} : constructor(service)
    \/ \E i \in DOMAIN requests, outcome \in RepositoryOutcomes : Respond(i, outcome)
    \/ getAllProducts
    \/ getProductById(<<"prod001">>)
    \/ createProduct([name |-> "b", quantity |-> 1])
    \/ deleteProduct(<<"prod001">>)
    \/ updateProduct(<<"prod001">>, [name |-> "c"])
    \/ getAllServices
    \/ getServiceById(<<"serv001">>)
    \/ createService([name |-> "b", price |-> 2])
    \/ deleteService(<<"serv001">>)
    \/ updateService(<<"serv001">>, [price |-> 3])

SpecTransport == InitLive /\ [][NextTransport]_vars

\* The store view loading its list, in mock mode or against the backend.
InitLoad ==
    /\ Boot
    /\ heap[1]["quantity"] = 1
    /\ useMockData \in BOOLEAN
    /\ localStorage = NoStorage
    /\ headers = [products |-> <<"">>, services |-> <<"">>, talleres |-> <<"">>]

NextLoad ==
    \/ Tick
    \/ ngOnInit
    \/ Deliver
    \/ \E i \in DOMAIN requests, outcome \in RepositoryOutcomes : Respond(i, outcome)
    \/ \E product \in Range(StoreProducts), full \in BOOLEAN : addProduct(product, full)

SpecLoad == InitLoad /\ [][NextLoad]_vars

(***************************************************************************)
(* Properties of the repositories in mock mode.                            *)
(***************************************************************************)
\* The response the call of this step has queued.
Queued == pending'[Len(pending')].resp

\* This step is a call of one of the named repository operations.
IsCall(ops) == issued' = issued + 1 /\ last'.op \in ops

\* An id that create generated: `prod${Date.now()}` or `serv${Date.now()}`.
Generated(id) == Len(id) = 2

\* C5: in mock mode a getById called right after a create, with the id that
\* create put in its envelope, answers an entity equal field for field to
\* the one the create returned.
C5_CreateThenGetById ==
    [][/\ (useMockData /\ last.op = "createProduct" /\ IsCall({"getProductById"})
             /\ last'.id = heap[last.ref]["_id"]) =>
            /\ Queued # <<>>
            /\ heap'[Queued[1]] = heap[last.ref]
       /\ (useMockData /\ last.op = "createService" /\ IsCall({"getServiceById"})
             /\ last'.id = heap[last.ref]["_id"]) =>
            /\ Queued # <<>>
            /\ heap'[Queued[1]] = heap[last.ref]]_vars

\* C6: in mock mode a delete of an id that is not in the collection queues
\* the envelope {ok: false, msg} and leaves the collection and its entities
\* as they were, every time it is called.
C6_DeleteMissingIsNoOp ==
    [][/\ (useMockData /\ IsCall({"deleteProduct"}) /\ ~some(mockProducts, heap, last'.id)) =>
            /\ Queued = [ok |-> FALSE, msg |-> "Producto no encontrado"]
            /\ mockProducts' = mockProducts
            /\ heap' = heap
       /\ (useMockData /\ IsCall({"deleteService"}) /\ ~some(mockServices, heap, last'.id)) =>
            /\ Queued = [ok |-> FALSE, msg |-> "Servicio no encontrado"]
            /\ mockServices' = mockServices
            /\ heap' = heap]_vars

\* C6 witness: a missing id has been deleted twice, both answers queued, the
\* collection as long as it was at the start.
C6_Witness ==
    /\ useMockData
    /\ last.op = "deleteProduct"
    /\ Len(pending) = 2
    /\ \A i \in DOMAIN pending :
          pending[i].op = "deleteProduct" /\ pending[i].resp["ok"] = FALSE
    /\ Len(mockProducts) = 2

\* C7: in mock mode an entity with a generated id stays in the collection
\* that listAll returns until a delete of that id, and that delete answers
\* ok = true and leaves no entity with the id in the collection.
C7_CreatedUntilDeleted ==
    [][useMockData =>
        \A id \in {x \in IdsOf(mockProducts) : Generated(x) /\ some(mockProducts, heap, x)} :
            IF IsCall({"deleteProduct"}) /\ last'.id = id
            THEN /\ Queued["ok"] = TRUE
                 /\ ~some(mockProducts', heap', id)
            ELSE some(mockProducts', heap', id)]_vars

\* C9: in mock mode no repository operation sends a request.
C9_NoRequestInMockMode == useMockData => requests = <<>>

(***************************************************************************)
(* Properties of the session manager (SpecSession).                        *)
(***************************************************************************)
\* C3: a verifyToken answered with a body that has no token, or with an
\* error status, ends with no user, no stored token and the result false;
\* one answered with a token ends with a user and the result true.
C3_VerifyTokenOutcome ==
    last.op = "verifyToken.next" =>
        IF last.outcome.kind = "body" /\ Has(last.outcome.body, "token")
        THEN last.value = TRUE /\ authData # <<>>
        ELSE last.outcome.kind \in {"body", "status"} =>
                /\ authData = <<>>
                /\ getItem(localStorage, "token") = <<>>
                /\ last.value = FALSE

\* C4: a login that resolves to false leaves the stored token as it was.
C4_FailedLoginWritesNothing ==
    [][(last'.op = "login.next" /\ last'.value = FALSE) =>
            getItem(localStorage', "token") = getItem(localStorage, "token")]_vars

(***************************************************************************)
(* Properties of the repositories in live mode (SpecLive).                 *)
(***************************************************************************)
\* The operations whose request must carry the session header.
HeaderOps ==
    {"getAllProducts", "createProduct", "updateProduct", "deleteProduct",
     "getAllServices", "createService", "updateService", "deleteService"}

\* C10: in live mode the request of a list, create, update or delete carries
\* the token that is stored when the request is sent.
C10_RequestCarriesStoredToken ==
    [][(~useMockData /\ IsCall(HeaderOps) /\ getItem(localStorage, "token") # <<>>) =>
            requests'[Len(requests')].hdr = getItem(localStorage, "token")]_vars

\* C11: writing a field of the object the user accessor returned leaves
\* authData as it was, and the accessor returns the profile that the last
\* verifyToken stored (an object without fields when there is none).
C11_UserIsSnapshot ==
    [][/\ last'.op = "mutate" => authData' = authData
       /\ last'.op = "user" =>
            /\ authData \in {<<>>, <<Profile>>}
            /\ held'.obj = <<IF authData = <<>> THEN [g \in {} |-> ""] ELSE Profile>>]_vars

\* C11 witness: while a profile is stored, a caller has set the role of the
\* object it got from the accessor.
C11_Witness ==
    /\ last.op = "mutate"
    /\ authData = <<Profile>>
    /\ held.obj # <<>>
    /\ held.obj[1]["role"] = "admin"

(***************************************************************************)
(* Identity of the entities in mock mode.                                  *)
(***************************************************************************)
\* The ids of an array's entities, in array order.
IdsInOrder(arr, h) == [i \in DOMAIN arr |-> h[arr[i]]["_id"]]

\* C12: in mock mode an update, whatever its patch, leaves every entity of
\* the collection under the id it had.
C12_IdImmutable ==
    [][/\ (useMockData /\ IsCall({"updateProduct"})) =>
            IdsInOrder(mockProducts', heap') = IdsInOrder(mockProducts, heap)
       /\ (useMockData /\ IsCall({"updateService"})) =>
            IdsInOrder(mockServices', heap') = IdsInOrder(mockServices, heap)]_vars

\* C19: in mock mode the entities of a collection have pairwise distinct ids.
C19_DistinctIds ==
    useMockData =>
        /\ \A i, j \in DOMAIN mockProducts :
              heap[mockProducts[i]]["_id"] = heap[mockProducts[j]]["_id"] => i = j
        /\ \A i, j \in DOMAIN mockServices :
              heap[mockServices[i]]["_id"] = heap[mockServices[j]]["_id"] => i = j

(***************************************************************************)
(* Update in mock mode.                                                    *)
(***************************************************************************)
\* new is old with the patch merged in: the patch's fields have the patch's
\* values, the other fields of old are as they were, and there are no more
\* fields; the fields in `stamped` are left to the caller of this operator.
Merged(old, patch, new, stamped) ==
    /\ DOMAIN new = (DOMAIN old) \cup (DOMAIN patch) \cup stamped
    /\ \A f \in (DOMAIN patch) \ stamped : new[f] = patch[f]
    /\ \A f \in (DOMAIN old) \ ((DOMAIN patch) \cup stamped) : new[f] = old[f]

\* What an update step of a found id does, the fields in `stamped` aside: the
\* merged entity takes the old one's place and is the one in the envelope.
UpdateFound(arr, arr2, stamped) ==
    LET index == findIndex(arr, heap, last'.id)
    IN /\ Queued["ok"] = TRUE
       /\ Len(arr2) = Len(arr)
       /\ \A i \in DOMAIN arr : i # index => arr2[i] = arr[i] /\ heap'[arr2[i]] = heap[arr[i]]
       /\ Queued["data"].items = <<arr2[index]>>
       /\ Merged(heap[arr[index]], last'.patch, heap'[arr2[index]], stamped)

\* What an update step of a missing id does.
UpdateMissing(arr, arr2) ==
    /\ Queued["ok"] = FALSE
    /\ Has(Queued, "msg")
    /\ arr2 = arr
    /\ heap' = heap

StoredToken(ls) == getItem(ls, "token")

\* This step is the answer to a login / verifyToken request.
IsAnswer(op) ==
    /\ Len(requests') < Len(requests)
    /\ last'.op = op

\* C13: when login has been answered with ok = true and a token, that token
\* is the one stored under 'token' and login has resolved to true.
C13_LoginStoresToken ==
    (/\ last.op = "login.next"
     /\ last.outcome.kind = "body"
     /\ Has(last.outcome.body, "token")
     /\ last.outcome.body["ok"] = TRUE) =>
        /\ StoredToken(localStorage) = <<last.outcome.body["token"]>>
        /\ last.value = TRUE

\* C13 witness: a login answered with the token t2 while t1 was stored.
C13_Witness ==
    /\ last.op = "login.next"
    /\ last.value = TRUE
    /\ last.outcome.body["token"] = "t2"
    /\ StoredToken(localStorage) = <<"t2">>
    /\ authData # <<>>

\* C17: whenever a profile is in memory, the stored token is the one that
\* came with the verifyToken answer that stored the profile: a step leaves a
\* profile either because it is such an answer, storing its token, or
\* because the profile was there and the stored token stays what it was.
C17_ProfileOnlyWithConfirmedToken ==
    [][authData' # <<>> =>
        \/ /\ IsAnswer("verifyToken.next")
           /\ last'.value = TRUE
           /\ StoredToken(localStorage') = <<last'.outcome.body["token"]>>
        \/ /\ authData # <<>>
           /\ ~IsAnswer("verifyToken.next")
           /\ StoredToken(localStorage') # <<>>
           /\ StoredToken(localStorage') = StoredToken(localStorage)]_vars

\* C18: every answer to a login or a verifyToken request, body or failure,
\* gives the caller one boolean, and false for a failure; no error reaches
\* the caller.
C18_AlwaysOneBoolean ==
    [][\A i \in DOMAIN requests :
        (requests' = splice(requests, i) /\ requests[i].op \in {"login", "verifyToken"}) =>
            /\ last'.op = IF requests[i].op = "login" THEN "login.next" ELSE "verifyToken.next"
            /\ last'.value \in BOOLEAN
            /\ last'.outcome.kind # "body" => last'.value = FALSE]_vars

\* C18 witness: a verifyToken whose request failed on the network has given
\* false, after a login that was answered with an error status.
C18_Witness ==
    /\ last.op = "verifyToken.next"
    /\ last.outcome.kind = "network"
    /\ last.value = FALSE
    /\ requests = <<>>
    /\ StoredToken(localStorage) # <<>>

(***************************************************************************)
(* More properties of the cart owner (SpecStore, SpecCart).                *)
(***************************************************************************)
\* The count of a line (0 when it has none).
CountOf(line) == IF Has(line, "count") THEN line["count"] ELSE 0

\* C14: an addProduct of an id absent from the cart appends one line with
\* count 1 and leaves the other lines; an addProduct of an id whose line has
\* count < quantity raises that line's count by 1 and leaves the other
\* lines, whichever object carries the id.
C14_AddLineCounts ==
    [][IsAddProduct =>
        LET id == heap[last'.product]["_id"]
            lines == LinesOf(shoppingCart, heap, id)
            before == CartValue(shoppingCart, heap)
            after == CartValue(shoppingCart', heap')
        IN IF lines = {}
           THEN /\ Len(after) = Len(before) + 1
                /\ \A i \in DOMAIN before : after[i] = before[i]
                /\ after[Len(after)]["_id"] = id
                /\ CountOf(after[Len(after)]) = 1
           ELSE (\A i \in lines : belowQuantity(before[i])) =>
                    /\ Len(after) = Len(before)
                    /\ \A i \in DOMAIN before :
                          IF i \in lines
                          THEN after[i] = Put(before[i], "count", before[i]["count"] + 1)
                          ELSE after[i] = before[i]]_vars

\* C15: after an addProduct that has returned, the value stored under
\* 'shoppingCart' is the whole cart as it is in memory.
C15_StoredCartIsWholeCart ==
    [][(IsAddProduct /\ ~last'.thrown) =>
        /\ Has(localStorage', "shoppingCart")
        /\ parse(localStorage'["shoppingCart"]) = CartValue(shoppingCart', heap')]_vars

\* C15 witness: a cart of two lines, one of them with count 2, is stored.
C15_Witness ==
    /\ last.op = "addProduct"
    /\ ~last.thrown
    /\ Len(shoppingCart) = 2
    /\ \E i \in DOMAIN shoppingCart : heap[shoppingCart[i]]["count"] = 2
    /\ Has(localStorage, "shoppingCart")
    /\ Len(parse(localStorage["shoppingCart"])) = 2

\* C16: an addProduct whose storage write fails writes a second time, raises
\* no error, and leaves the change in the cart in memory.
C16_FailedWriteRetried ==
    [][(IsAddProduct /\ last'.full) =>
        /\ last'.writes = 2
        /\ ~last'.thrown
        /\ some(shoppingCart', heap', heap[last'.product]["_id"])]_vars

(***************************************************************************)
(* Operations in flight in mock mode (FairCreateDelete).                   *)
(***************************************************************************)
\* The entities of an array, as values.
ValuesOf(arr, h) == [i \in DOMAIN arr |-> h[arr[i]]]

\* C21: a call adds its response to those in flight and drops none; a
\* delivery hands over exactly one response in flight; the collections
\* change at the call of a mutation and never at a delivery, so they are at
\* any time the issued mutations applied in issue order; and every response
\* in flight is delivered.
C21_NoCancelAllDelivered ==
    /\ [][/\ (issued' = issued + 1) =>
               /\ Len(pending') = Len(pending) + 1
               /\ SubSeq(pending', 1, Len(pending)) = pending
               /\ pending'[Len(pending')].op = last'.op
          /\ (issued' = issued /\ Len(pending') # Len(pending)) =>
               /\ \E i \in DOMAIN pending :
                     /\ pending' = splice(pending, i)
                     /\ last' = [op |-> "next", of |-> pending[i].op, to |-> pending[i].to,
                                 value |-> pending[i].resp]
               /\ ValuesOf(mockProducts', heap') = ValuesOf(mockProducts, heap)
               /\ ValuesOf(mockServices', heap') = ValuesOf(mockServices, heap)
          /\ (issued' = issued /\ Len(pending') = Len(pending)) =>
               /\ pending' = pending
               /\ ValuesOf(mockProducts', heap') = ValuesOf(mockProducts, heap)
               /\ ValuesOf(mockServices', heap') = ValuesOf(mockServices, heap)]_vars
    /\ []<>(pending = <<>>)

\* C21 witness: a delete issued after a create has been answered while the
\* create's response is still in flight, and the created entity is gone.
C21_Witness ==
    /\ last.op = "next"
    /\ last.of = "deleteProduct"
    /\ last.value["ok"] = TRUE
    /\ \E i \in DOMAIN pending : pending[i].op = "createProduct"
    /\ Len(mockProducts) = 2

(***************************************************************************)
(* Who changes the fixture collection, and what a list shows.              *)
(***************************************************************************)
\* C22: in mock mode a step that is not a create, update or delete of the
\* products repository leaves every entity of its collection as it was.
C22_OnlyRepositoryChangesFixtures ==
    [][(useMockData /\ ~IsCall({"createProduct", "updateProduct", "deleteProduct"})) =>
            ValuesOf(mockProducts', heap') = ValuesOf(mockProducts, heap)]_vars

\* The entities a list envelope shows to whoever holds it, given the arrays
\* and the objects as they are.
ListOf(data, mp, ms, h) ==
    CASE data.alias = "mockProducts" -> ValuesOf(mp, h)
      [] data.alias = "mockServices" -> ValuesOf(ms, h)
      [] OTHER -> ValuesOf(data.items, h)

\* C23: in mock mode the list of a listAll whose response is in flight is
\* not changed by the calls made after it.
C23_ListIsSnapshot ==
    [][(useMockData /\ issued' = issued + 1) =>
        \A i \in DOMAIN pending :
            pending[i].op \in {"getAllProducts", "getAllServices"} =>
                ListOf(pending[i].resp["data"], mockProducts', mockServices', heap')
                    = ListOf(pending[i].resp["data"], mockProducts, mockServices, heap)]_vars

(***************************************************************************)
(* The loading flags of the store view (SpecLoad).                         *)
(***************************************************************************)
\* This step ends the load of the StoreComponent that is alive.
LoadEnds ==
    /\ Len(pending') < Len(pending) \/ Len(requests') < Len(requests)
    /\ ToStore(last'.to)

\* C24: when the load of the view ends, isLoading becomes false and hasError
\* is true exactly if it ended with an error; from then on, for that view,
\* isLoading stays false and hasError stays what it is.
C24_LoadingEnds ==
    [][/\ LoadEnds => (isLoading' = FALSE /\ hasError' = (last'.op = "error"))
       /\ (instance' = instance /\ isLoading = FALSE) => isLoading' = FALSE
       /\ (instance' = instance /\ ~LoadEnds) => hasError' = hasError]_vars

\* C24 witness: the load of a second view has ended with an error.
C24_Witness ==
    /\ instance = 2
    /\ last.op = "error"
    /\ isLoading = FALSE
    /\ hasError = TRUE

(***************************************************************************)
(* The lines of the cart.                                                  *)
(***************************************************************************)
\* C25: no two lines of the cart have the same _id.
C25_CartLinesUnique ==
    \A i, j \in DOMAIN shoppingCart :
        heap[shoppingCart[i]]["_id"] = heap[shoppingCart[j]]["_id"] => i = j

\* C25 witness: a product already in a cart of two lines was added again.
C25_Witness ==
    /\ last.op = "addProduct"
    /\ Len(shoppingCart) = 2
    /\ contador = 3

(***************************************************************************)
(* Transport failures in live mode (SpecTransport).                        *)
(***************************************************************************)
\* The repository operations that send a request in live mode.
RepositoryOps ==
    {"getAllProducts", "getProductById", "createProduct", "updateProduct", "deleteProduct",
     "getAllServices", "getServiceById", "createService", "updateService", "deleteService"}

\* C26: in live mode the answer to a repository request reaches the caller's
\* error handler, with the failure itself, exactly when the request failed
\* (error status or network failure); a body reaches the next handler.
C26_TransportErrorsPropagate ==
    [][(~useMockData /\ Len(requests') < Len(requests)) =>
        \A i \in DOMAIN requests :
            (requests' = splice(requests, i) /\ requests[i].op \in RepositoryOps) =>
                /\ last'.of \in RepositoryOps
                /\ IF Has(last'.value, "kind")
                   THEN last'.op = "error" /\ last'.value.kind \in {"status", "network"}
                   ELSE last'.op = "next"]_vars

\* C26 witness: a deleteProduct has failed on the network after an update
\* was answered, and the caller has the failure.
C26_Witness ==
    /\ ~useMockData
    /\ last.op = "error"
    /\ last.of = "deleteProduct"
    /\ last.value.kind = "network"
    /\ issued >= 2

(***************************************************************************)
(* The keys of localStorage (SpecStorage).                                 *)
(***************************************************************************)
\* The keys whose value differs between two storages.
KeysChanged(ls, ls2) ==
    {k \in (DOMAIN ls) \cup (DOMAIN ls2) : getItem(ls, k) # getItem(ls2, k)}

\* C27: an addProduct changes no key but 'shoppingCart', an answer to login
\* or verifyToken no key but 'token', and every other step no key at all.
C27_KeysNotShared ==
    [][KeysChanged(localStorage, localStorage') \subseteq
        IF IsAddProduct THEN {"shoppingCart"}
        ELSE IF IsAnswer("login.next") \/ IsAnswer("verifyToken.next") THEN {"token"}
        ELSE {}]_vars

\* C27 witness: with a cart stored, a verifyToken answered without a token
\* has removed the token and the cart is still stored.
C27_Witness ==
    /\ last.op = "verifyToken.next"
    /\ last.outcome.kind = "body"
    /\ ~Has(last.outcome.body, "token")
    /\ Has(localStorage, "shoppingCart")
    /\ ~Has(localStorage, "token")
    /\ shoppingCart # <<>>

(***************************************************************************)
(* The modal's signal (SpecModal).                                         *)
(***************************************************************************)
\* The cart's lines: the objects its elements refer to.
Lines(cart, h) == [i \in DOMAIN cart |-> h[cart[i]]]

\* Every subscriber of before the step has received `value` in it, the live
\* store's own handler by its effect on this.modal.
Delivered(value) ==
    /\ Len(listeners') = Len(listeners)
    /\ \A i \in DOMAIN listeners :
           IF listeners[i].who = "store" /\ listeners[i].inst = instance
           THEN modal' = <<value>>
           ELSE listeners'[i].got = Append(listeners[i].got, value)

\* C28: an emit on $modal reaches exactly the handlers subscribed at that
\* moment, a handler subscribed later starts with nothing received, neither
\* changes the cart's lines or a key of localStorage, and opening the cart
\* modal is such an emit of true.
C28_ModalSignalPublished ==
    [][/\ last'.op = "emit" =>
            /\ Delivered(last'.value)
            /\ Lines(shoppingCart', heap') = Lines(shoppingCart, heap)
            /\ localStorage' = localStorage
       /\ Len(listeners') > Len(listeners) =>
            /\ Len(listeners') = Len(listeners) + 1
            /\ listeners'[Len(listeners')].got = <<>>
            /\ \A i \in DOMAIN listeners : listeners'[i] = listeners[i]
       /\ last'.op = "opencarrito" =>
            /\ Delivered(TRUE)
            /\ Lines(shoppingCart', heap') = Lines(shoppingCart, heap)
            /\ localStorage' = localStorage]_vars

\* C28 without its last part: what an emit and a later subscribe do.
C28_EmitReachesSubscribers ==
    [][/\ last'.op = "emit" =>
            /\ Delivered(last'.value)
            /\ Lines(shoppingCart', heap') = Lines(shoppingCart, heap)
            /\ localStorage' = localStorage
       /\ Len(listeners') > Len(listeners) =>
            /\ Len(listeners') = Len(listeners) + 1
            /\ listeners'[Len(listeners')].got = <<>>
            /\ \A i \in DOMAIN listeners : listeners'[i] = listeners[i]]_vars

====
